---- MODULE Spec2Model ----
(***************************************************************************)
(* The chunked world streamer of salio: WorldManager (the active-chunk     *)
(* registry, reconciled against the camera's chunk) and Chunk (one grid    *)
(* cell's water and terrain geometry, with its level of detail).           *)
(*                                                                         *)
(* Grid cells are pairs <<x, z>>.  A distance is kept as its square        *)
(* (Math.sqrt of an integer n is <= k exactly when n <= k*k).  A geometry  *)
(* construction (new THREE.PlaneGeometry) may throw; which constructions   *)
(* throw is an input of the call that makes them.                          *)
(***************************************************************************)
EXTENDS Integers, FiniteSets, Sequences, TLC

----------------------------------------------------------------------------
(* Bounds of the model *)

\* camera positions are <<px, 0>>, px \in -MaxPosX..MaxPosX, and <<0, ChunkSize>>
MaxPosX == 1
\* calls in a run
MaxSteps == 3
\* view distances requested at construction and through setViewDistance
MaxView == 2
\* geometry constructions that throw, over a whole run
MaxFaults == 1
\* setViewDistance requests run from -1 to MaxRequest (SpecView)
MaxRequest == 21
\* calls made on one chunk in one run (SpecChunk)
MaxChunkCalls == 5
\* the camera visits the cells -1 .. ScenarioMaxCell of the x axis (SpecScenario)
ScenarioMaxCell == 1
\* lattice indices handed to hash2D run from -HashMax to HashMax (SpecHash)
HashMax == 5
\* calls made on the water material and the wave utilities in one run (SpecWave)
MaxWaveCalls == 2
\* sample points run from -MaxSample to MaxSample world units on each axis (SpecWave)
MaxSample == 1
\* bounds of the level-of-detail runs (SpecLod)
LodMaxPos == 2
LodMaxView == 6
\* bounds of the single-chunk runs (SpecProbe)
ProbeMax == 17

----------------------------------------------------------------------------
(* Configuration *)

\* chunkSize: options.chunkSize || 2
ChunkSize == 2

\* base resolutions the world is constructed with
Resolutions == {256}

ProbeResolutions == {32, 64, 128, 256, 512}
\* base resolutions on both sides of each step of the safe view distance
ViewResolutions == {32, 64, 65, 128, 129, 256, 257, 512}

\* lastCameraChunkPosition starts at Infinity; a finite coordinate n is <<n>>
Infinity == << >>

Fin(n) == <<n>>

Roles == {"water", "floor"}

\* a construction that throws is that of the camera's cell or of a cell next to it
FaultOffsets == {<<0, 0>>, <<-1, 0>>}

----------------------------------------------------------------------------
VARIABLES
    resolution,               \* WorldManager.resolution
    viewDistance,             \* WorldManager.viewDistance
    maxSafeViewDistance,      \* WorldManager.maxSafeViewDistance
    oceanFloorDepth,          \* WorldManager.oceanFloorDepth
    activeChunks,             \* WorldManager.activeChunks: cell -> Chunk
    lastCameraChunkPosition,  \* WorldManager.lastCameraChunkPosition
    scene,                    \* meshes in the THREE scene: <<cell, role, owner>>
    camPos,                   \* distantWaterPlane.position: the last camera position
    call,                     \* what the last call did
    allowed,                  \* cells admitted since the last reconcile that ran its eviction pass
    faults,                   \* constructions that have thrown so far
    steps,                    \* calls made so far
    probe,                    \* a chunk built on its own (SpecProbe)
    chunkSize,                \* WorldManager.chunkSize
    geometries,               \* the geometries built for the chunk in probe
    uniforms,                 \* WaterMaterial.uniforms: the wave parameters, in thousandths
    sample,                   \* what the last WaveUtils call did
    boat,                     \* Boat: body position and velocity, rudderAngle, currentThrust
    applied                   \* what the last physics preStep applied to the body

vars == <<resolution, viewDistance, maxSafeViewDistance, oceanFloorDepth,
          activeChunks, lastCameraChunkPosition, scene, camPos,
          call, allowed, faults, steps, probe,
          chunkSize, geometries, uniforms, sample, boat, applied>>

\* the state outside the WorldManager and its chunks
oceanVars == <<uniforms, sample, boat, applied>>

----------------------------------------------------------------------------
(* Chunk *)

\* Chunk.calculateLODLevel: the mutant shifts the band edges (< for <=)
calculateLODLevel_strict(distSq) ==
    IF distSq < 25 THEN 0
    ELSE IF distSq < 100 THEN 1
    ELSE IF distSq < 225 THEN 2
    ELSE 3

calculateLODLevel(distSq) ==
    IF distSq <= 25 THEN 0
    ELSE IF distSq <= 100 THEN 1
    ELSE IF distSq <= 225 THEN 2
    ELSE 3

Max(a, b) == IF a >= b THEN a ELSE b

Min(a, b) == IF a <= b THEN a ELSE b

RECURSIVE Pow2(_)
Pow2(n) == IF n = 0 THEN 1 ELSE 2 * Pow2(n - 1)

\* Math.max(16, Math.floor(this.resolution / Math.pow(2, lod)))
adjustedResolution(res, lod) == Max(16, res \div Pow2(lod))

fallbackResolution == 8

\* Math.max(4, Math.floor(this.resolution / 16))
terrainResolution(res) == Max(4, res \div 16)

\* which constructions of one createChunk call throw
NoFault == [water |-> FALSE, fallback |-> FALSE, floor |-> FALSE]

FaultKinds ==
    { [water |-> TRUE,  fallback |-> FALSE, floor |-> FALSE],
      [water |-> TRUE,  fallback |-> TRUE,  floor |-> FALSE],
      [water |-> FALSE, fallback |-> FALSE, floor |-> TRUE],
      [water |-> TRUE,  fallback |-> FALSE, floor |-> TRUE] }

\* Chunk.createWaterMesh without its catch block: the mutant lets the first failure through
createWaterMesh_nocatch(res, distSq, fault) ==
    LET lod == calculateLODLevel(distSq)
    IN  IF ~fault.water
        THEN [threw |-> FALSE,
              mesh |-> [segments |-> adjustedResolution(res, lod),
                        lodLevel |-> [tag |-> "lod", value |-> lod]]]
        ELSE [threw |-> TRUE]

\* Chunk.createWaterMesh: try at the LOD resolution, on failure build at fallbackResolution
createWaterMesh(res, distSq, fault) ==
    LET lod == calculateLODLevel(distSq)
    IN  IF ~fault.water
        THEN [threw |-> FALSE,
              mesh |-> [segments |-> adjustedResolution(res, lod),
                        lodLevel |-> [tag |-> "lod", value |-> lod]]]
        ELSE IF ~fault.fallback
        THEN [threw |-> FALSE,
              mesh |-> [segments |-> fallbackResolution,
                        lodLevel |-> [tag |-> "fallback"]]]
        ELSE [threw |-> TRUE]

\* Chunk.createTerrainMesh: no try/catch
createTerrainMesh(res, depth, fault) ==
    IF fault.floor
    THEN [threw |-> TRUE]
    ELSE [threw |-> FALSE,
          mesh |-> [segments |-> terrainResolution(res), y |-> depth]]

\* Chunk.dispose, the mutant also disposing the terrain geometry
ChunkDispose_both(chunk) ==
    [water |-> IF chunk.mesh # << >> THEN 1 ELSE 0,
     floor |-> IF chunk.terrainMesh # << >> THEN 1 ELSE 0]

\* Chunk.dispose: the number of dispose() calls each geometry of the chunk receives
ChunkDispose(chunk) ==
    [water |-> IF chunk.mesh # << >> THEN 1 ELSE 0,
     floor |-> 0]

\* Chunk.dispose leaving this.mesh as it is (the mutant)
MeshAfterDispose_kept(chunk) == chunk.mesh

\* Chunk.dispose: this.mesh = null
MeshAfterDispose(chunk) == << >>

\* a geometry built for a chunk: the dispose() calls it received, and whether the chunk
\* still refers to its mesh
Geometry(role, mesh) ==
    [role |-> role, segments |-> mesh.segments, disposeCalls |-> 0, held |-> TRUE]

----------------------------------------------------------------------------
(* WorldManager *)

calculateSafeViewDistance(res) ==
    IF res > 256 THEN 8
    ELSE IF res > 128 THEN 12
    ELSE IF res > 64 THEN 16
    ELSE 20

\* Math.floor(cameraPosition.x / this.chunkSize)
CameraChunk(p) == p \div chunkSize

\* the squared distance with the z term forgotten (the mutant)
DistSq_xonly(c, d) == (c[1] - d[1]) * (c[1] - d[1])

DistSq(c, d) == (c[1] - d[1]) * (c[1] - d[1]) + (c[2] - d[2]) * (c[2] - d[2])

\* the two nested loops of updateActiveChunks visit the enclosing square
Square(center, r) ==
    {<<x, z>> : x \in (center[1] - r)..(center[1] + r),
                z \in (center[2] - r)..(center[2] + r)}

\* the admission test without the radius check (the enclosing square)
InRadius_square(c, center, r) == c \in Square(center, r)

\* distSq <= this.viewDistance * this.viewDistance
InRadius(c, center, r) == DistSq(c, center) <= r * r

\* the order in which the loops visit the cells: x outer, z inner, both ascending
Before(c, d) == c[1] < d[1] \/ (c[1] = d[1] /\ c[2] < d[2])

\* newActiveChunkIds filled only for cells that were already active
NewActiveChunkIds_stale(center, r, chunks) ==
    {c \in Square(center, r) : InRadius(c, center, r) /\ c \in DOMAIN chunks}

\* newActiveChunkIds at the end of the creation pass, when no createChunk throws
NewActiveChunkIds(center, r, chunks) ==
    {c \in Square(center, r) : InRadius(c, center, r)}

\* WorldManager.createChunk(x, z): the Chunk it registers, or the throw and what it leaves behind
createChunk(c, lastCam, res, depth, fault) ==
    LET distSq == DistSq(c, <<lastCam.x[1], lastCam.z[1]>>)
        water  == createWaterMesh(res, distSq, fault)
        floor  == IF water.threw THEN [threw |-> TRUE]
                  ELSE createTerrainMesh(res, depth, fault)
    IN  IF water.threw
        THEN [threw |-> TRUE, leaked |-> {}]
        ELSE IF floor.threw
        \* the water mesh was built and added to the scene, the chunk is never registered
        THEN [threw |-> TRUE,
              leaked |-> {[cell |-> c, role |-> "water", inScene |-> TRUE]}]
        ELSE [threw |-> FALSE,
              leaked |-> {},
              chunk |-> [position |-> c,
                         distSq |-> distSq,
                         mesh |-> <<water.mesh>>,
                         terrainMesh |-> <<floor.mesh>>,
                         isActive |-> TRUE]]

\* the eviction pass never entered (the mutant)
ShouldEvict_never(c, newActiveChunkIds) == FALSE

\* if (!newActiveChunkIds.has(chunkId))
ShouldEvict(c, newActiveChunkIds) == c \notin newActiveChunkIds

\* a chunk that is active is rebuilt all the same (the mutant)
NeedsCreate_always(c, chunks) == TRUE

\* if (!this.activeChunks.has(chunkId))
NeedsCreate(c, chunks) == c \notin DOMAIN chunks

Restrict(f, S) == [c \in S |-> f[c]]

\* update reconciles on every call (the mutant)
CameraMoved_always(cameraChunkX, cameraChunkZ, last) == TRUE

\* cameraChunkX !== this.lastCameraChunkPosition.x || cameraChunkZ !== this.lastCameraChunkPosition.z
CameraMoved(cameraChunkX, cameraChunkZ, last) ==
    Fin(cameraChunkX) # last.x \/ Fin(cameraChunkZ) # last.z

\* the geometries of released chunks that no dispose() call reached
Undisposed(chunks, released) ==
    {[cell |-> c, role |-> "water", inScene |-> FALSE] :
        c \in {d \in DOMAIN released : chunks[d].mesh # << >> /\ released[d].water = 0}}
    \cup
    {[cell |-> c, role |-> "floor", inScene |-> FALSE] :
        c \in {d \in DOMAIN released : chunks[d].terrainMesh # << >> /\ released[d].floor = 0}}

\* WorldManager.updateActiveChunks(centerChunkX, centerChunkZ); FaultOf gives, per cell,
\* the constructions that throw when that cell's chunk is built
updateActiveChunks(center, chunks, sc, lastCam, r, res, depth, fcell, fkind) ==
    LET FaultOf(c) == IF c = fcell THEN fkind ELSE NoFault
        admitted == {c \in Square(center, r) : InRadius(c, center, r)}
        toCreate == {c \in admitted : NeedsCreate(c, chunks)}
        out      == [c \in toCreate |-> createChunk(c, lastCam, res, depth, FaultOf(c))]
        throwers == {c \in toCreate : out[c].threw}
        Completed(o) ==
            LET afterCreate == [c \in DOMAIN chunks \cup toCreate |->
                                   IF c \in toCreate THEN o[c].chunk ELSE chunks[c]]
                newIds   == NewActiveChunkIds(center, r, chunks)
                evicted  == {c \in DOMAIN afterCreate : ShouldEvict(c, newIds)}
                released == [c \in evicted |-> ChunkDispose(afterCreate[c])]
            IN  [threw    |-> FALSE,
                 admitted |-> admitted,
                 chunks   |-> Restrict(afterCreate, DOMAIN afterCreate \ evicted),
                 scene    |-> (sc \cup {<<c, ro, "chunk">> : c \in toCreate, ro \in Roles})
                                 \ {<<c, ro, "chunk">> : c \in evicted, ro \in Roles},
                 created  |-> toCreate,
                 released |-> released,
                 leaked   |-> Undisposed(afterCreate, released)]
        Aborted(o) ==
            LET first   == CHOOSE c \in throwers : \A d \in throwers : d = c \/ Before(c, d)
                created == {c \in toCreate : Before(c, first)}
            IN  [threw    |-> TRUE,
                 admitted |-> admitted,
                 chunks   |-> [c \in DOMAIN chunks \cup created |->
                                   IF c \in created THEN o[c].chunk ELSE chunks[c]],
                 scene    |-> sc \cup {<<c, ro, "chunk">> : c \in created, ro \in Roles}
                                 \cup {<<l.cell, l.role, "none">> : l \in o[first].leaked},
                 created  |-> created,
                 released |-> [c \in {} |-> 0],
                 leaked   |-> o[first].leaked]
    IN  IF throwers = {} THEN Completed(out) ELSE Aborted(out)

\* what a call did: op, the camera position before it (prevPos), whether it ran
\* updateActiveChunks (reconciled) for which cell (center), whether it threw, the cells
\* whose chunk it created, the dispose() calls each removed chunk's geometries received
\* (released), the geometries it left undisposed and unowned (leaked), and the
\* construction failure it met (fault); for setViewDistance, setOceanFloorDepth and
\* setRudderAngle, the value asked for (request); for update, the time it was given
\* (time)
NoCall(op) ==
    [op |-> op, prevPos |-> camPos, reconciled |-> FALSE, threw |-> FALSE, center |-> << >>,
     created |-> {}, released |-> [c \in {} |-> 0], leaked |-> {},
     fault |-> [cell |-> << >>, kind |-> NoFault], request |-> Infinity,
     time |-> Infinity]

----------------------------------------------------------------------------
(* WaterMaterial and WaveUtils. Lengths, times and wave parameters are in    *)
(* thousandths (Milli); the default frequency 0.5287 enters as 529.          *)

Milli == 1000

\* WaterMaterial.constructor: the uniforms getWaveHeight reads
DefaultUniforms ==
    [uTime |-> 0, uWavesAmplitude |-> 36, uWavesFrequency |-> 529,
     uWavesPersistence |-> 300, uWavesLacunarity |-> 2180, uWavesIterations |-> 8,
     uWavesSpeed |-> 400]

\* F2 and G2 of simplex2D
F2 == 366
G2 == 211

\* the remainder operator of JavaScript: the sign of the result is the sign of a
JsRem(a, b) == IF a >= 0 THEN a % b ELSE 0 - ((0 - a) % b)

\* WaveUtils.hash2D
hash2D(i, j) == JsRem(JsRem(i * 1597 + j * 6971, 289), 16)

\* the table of WaveUtils.getGradient, entry k of the code at index k + 1
gradients ==
    << <<1, 1>>, <<-1, 1>>, <<1, -1>>, <<-1, -1>>,
       <<1, 0>>, <<-1, 0>>, <<0, 1>>, <<0, -1>>,
       <<1, 1>>, <<-1, 1>>, <<1, -1>>, <<-1, -1>>,
       <<1, 0>>, <<-1, 0>>, <<0, 1>>, <<0, -1>> >>

\* WaveUtils.getGradient: gradients[hash] is undefined outside 0..15 and reading
\* grad[0] of undefined throws a TypeError
getGradient(hash) ==
    IF hash \in 0..15
    THEN [threw |-> FALSE, grad |-> gradients[hash + 1]]
    ELSE [threw |-> TRUE, grad |-> << >>]

\* the kernel with the exponent 2 in place of 4
Pow4_square(t) ==
    LET t1 == t \div 100
    IN  (t1 * t1) \div 10000

\* Math.pow(t, 4) for t in millionths, 0 <= t <= 0.5: the result in ten-thousandths
Pow4(t) ==
    LET t1 == t \div 100
        t2 == (t1 * t1) \div 10000
    IN  (t2 * t2) \div 10000

\* WaveUtils.calculateCornerContribution: t in millionths, the dot product in
\* thousandths, and the contribution Math.pow(t, 4) * dot in units of 10^-7
calculateCornerContribution(x, y, i, j) ==
    LET t == 500000 - x * x - y * y
        g == getGradient(hash2D(i, j))
        dot == g.grad[1] * x + g.grad[2] * y
    IN  IF t < 0 THEN [threw |-> FALSE, t |-> 0, dot |-> 0, value |-> 0]
        ELSE IF g.threw THEN [threw |-> TRUE, t |-> t, dot |-> 0, value |-> 0]
        ELSE [threw |-> FALSE, t |-> t, dot |-> dot, value |-> Pow4(t) * dot]

\* WaveUtils.simplex2D: the lattice cell of the skewed point, its three corners and
\* the noise value 38 * (n0 + n1 + n2) in thousandths
simplex2D(x, y) ==
    LET s  == ((x + y) * F2) \div Milli
        i  == (x + s) \div Milli
        j  == (y + s) \div Milli
        t  == (i + j) * G2
        x0 == x - (i * Milli - t)
        y0 == y - (j * Milli - t)
        i1 == IF x0 > y0 THEN 1 ELSE 0
        j1 == IF x0 > y0 THEN 0 ELSE 1
        n0 == calculateCornerContribution(x0, y0, i, j)
        n1 == calculateCornerContribution(x0 - i1 * Milli + G2, y0 - j1 * Milli + G2,
                                          i + i1, j + j1)
        n2 == calculateCornerContribution(x0 - Milli + 2 * G2, y0 - Milli + 2 * G2,
                                          i + 1, j + 1)
    IN  [threw |-> n0.threw \/ n1.threw \/ n2.threw, cell |-> <<i, j>>,
         corners |-> <<n0, n1, n2>>,
         value |-> (38 * (n0.value + n1.value + n2.value)) \div 10000]

\* the loop of WaveUtils.getWaveHeight from octave k on, acc holding the elevation
\* summed so far and the layers sampled: where each layer sampled the noise, its weight
\* and the noise value; the result also tells whether simplex2D threw
RECURSIVE Octaves(_, _, _, _, _, _, _)
Octaves(x, z, u, k, currentFrequency, currentAmplitude, acc) ==
    IF k >= u.uWavesIterations
    THEN [threw |-> FALSE, octaves |-> k, elevation |-> acc.elevation,
          layers |-> acc.layers]
    ELSE LET drift == (u.uTime * u.uWavesSpeed) \div Milli
             sx == (x * currentFrequency) \div Milli + drift
             sz == (z * currentFrequency) \div Milli + drift
             n == simplex2D(sx, sz)
         IN  IF n.threw
             THEN [threw |-> TRUE, octaves |-> k, elevation |-> acc.elevation,
                   layers |-> acc.layers]
             ELSE Octaves(x, z, u, k + 1,
                          (currentFrequency * u.uWavesLacunarity) \div Milli,
                          (currentAmplitude * u.uWavesPersistence) \div Milli,
                          [elevation |-> acc.elevation
                                           + (currentAmplitude * n.value) \div Milli,
                           layers |-> Append(acc.layers,
                                             [x |-> sx, z |-> sz,
                                              weight |-> currentAmplitude,
                                              noise |-> n.value])])

\* getWaveHeight with the seed frequency 1 in place of the base frequency
getWaveHeight_unitFrequency(x, z, u) ==
    LET r == Octaves(x, z, u, 0, Milli, Milli, [elevation |-> 0, layers |-> << >>])
    IN  [threw |-> r.threw, octaves |-> r.octaves, layers |-> r.layers,
         value |-> r.elevation * u.uWavesAmplitude]

\* getWaveHeight with a result that depends on how many calls came before
getWaveHeight_counted(x, z, u) ==
    LET r == Octaves(x, z, [u EXCEPT !.uTime = u.uTime + steps * Milli], 0,
                     u.uWavesFrequency, Milli, [elevation |-> 0, layers |-> << >>])
    IN  [threw |-> r.threw, octaves |-> r.octaves, layers |-> r.layers,
         value |-> r.elevation * u.uWavesAmplitude]

\* WaveUtils.getWaveHeight(x, z) with the uniforms u: value is the elevation times the
\* amplitude, in millionths
getWaveHeight(x, z, u) ==
    LET r == Octaves(x, z, u, 0, u.uWavesFrequency, Milli,
                     [elevation |-> 0, layers |-> << >>])
    IN  [threw |-> r.threw, octaves |-> r.octaves, layers |-> r.layers,
         value |-> r.elevation * u.uWavesAmplitude]

NoSample == [op |-> "none"]

----------------------------------------------------------------------------
(* The boat and the buoyancy listener of the physics world. Positions,       *)
(* velocities and the submerged ratio are in thousandths, the buoyancy force *)
(* in tenths of a newton, the rudder angle in degrees.                       *)

\* |physicsWorld.gravity.y| = 9.82, in hundredths
gravityMagnitude == 982

\* Boat.constructor: mass, hull height, rudder and thrust
DefaultBoat == [mass |-> 1200, hullHeight |-> 1000, rudderAngle |-> 0, currentThrust |-> 0]

\* Math.PI in millionths
PiMicro == 3141593

\* the angle setRudderAngle would store without its limits
clampedAngle_unclamped(angleDegrees) == angleDegrees

\* Boat.setRudderAngle: the angle in degrees limited to [-45, 45]
clampedAngle(angleDegrees) == Max(0 - 45, Min(45, angleDegrees))

\* (degrees * Math.PI) / 180: radians in millionths, rounded towards 0
toRadians(degrees) ==
    IF degrees >= 0 THEN (degrees * PiMicro) \div 180
    ELSE 0 - (((0 - degrees) * PiMicro) \div 180)

\* the test of the listener, the mutant taking the branch in the air as well
InWater_always(bottomY, waterHeight) == TRUE

\* the test of the listener: the hull bottom is at or below the water
InWater(bottomY, waterHeight) == bottomY <= waterHeight

\* the submerged ratio without its upper limit (the mutant)
submergedRatio_unclamped(waterHeight, bottomY, hullHeight) ==
    ((waterHeight - bottomY) * Milli) \div hullHeight

\* Math.min(1, (waterHeight - bottomY) / hullHeight)
submergedRatio(waterHeight, bottomY, hullHeight) ==
    Min(Milli, ((waterHeight - bottomY) * Milli) \div hullHeight)

\* mass * gravityMagnitude * 1.5 * submergedRatio
floatForceMagnitude(mass, ratio) ==
    (((mass * gravityMagnitude * 15) \div 100) * ratio) \div Milli

\* Boat.applyRudderForce: the force applied at the stern has the magnitude
\* speed^2 * 160 * sin(rudderAngle); it is kept as its factors
applyRudderForce(b, body) ==
    [kind |-> "rudder", speedSq |-> body.vx * body.vx + body.vz * body.vz,
     angle |-> b.rudderAngle]

\* the forces and torques the listener applies to the body, in the order of the code
preStepForces(b, body, waterHeight) ==
    LET bottomY == body.y - b.hullHeight \div 2
        ratio == submergedRatio(waterHeight, bottomY, b.hullHeight)
    IN  IF InWater(bottomY, waterHeight)
        THEN << [kind |-> "buoyancy", ratio |-> ratio,
                 y |-> floatForceMagnitude(b.mass, ratio)],
                [kind |-> "damping", x |-> 0 - (body.vx * ratio) \div 10,
                 z |-> 0 - (body.vz * ratio) \div 10],
                [kind |-> "torque", x |-> 0 - 5 * ratio * body.qx,
                 z |-> 0 - 5 * ratio * body.qz],
                applyRudderForce(b, body) >>
             \o (IF b.currentThrust > 0
                 THEN << [kind |-> "thrust", magnitude |-> b.currentThrust] >>
                 ELSE << >>)
        ELSE << >>

----------------------------------------------------------------------------
(* The state after construction *)

InitWorld(sizeSet, resSet, viewSet) ==
    /\ chunkSize \in sizeSet
    /\ resolution \in resSet
    /\ maxSafeViewDistance = calculateSafeViewDistance(resolution)
    /\ \E v \in viewSet : viewDistance = Min(v, maxSafeViewDistance)
    /\ oceanFloorDepth = -3
    /\ activeChunks = [c \in {} |-> 0]
    /\ lastCameraChunkPosition = [x |-> Infinity, z |-> Infinity]
    /\ scene = {}
    /\ camPos = << >>
    /\ call = [NoCall("constructor") EXCEPT !.prevPos = << >>]
    /\ allowed = {}
    /\ faults = 0
    /\ steps = 0
    /\ probe = << >>
    /\ geometries = << >>
    /\ uniforms = DefaultUniforms
    /\ sample = NoSample
    /\ applied = << >>

\* the world before the boat is created
InitWith(resSet, viewSet) ==
    /\ InitWorld({ChunkSize}, resSet, viewSet)
    /\ boat = << >>

Init == InitWith(Resolutions, 1..MaxView)

----------------------------------------------------------------------------
(* Operations *)

\* the stored time after an update that stores it only when it reconciles
StoredTime_reconcileOnly(time, moved, uTime) == IF moved THEN time ELSE uTime

\* WorldManager.update: this.waterMaterial.update(time) is its first statement, ahead
\* of the test that decides between reconciling and returning at once
StoredTime(time, moved, uTime) == time

\* WorldManager.update(time, cameraPosition) with the camera at <<px, pz>>;
\* fcell/fkind: the cell whose chunk construction fails in this call, and how
UpdateAt(time, px, pz, fcell, fkind) ==
    LET cameraChunkX == CameraChunk(px)
        cameraChunkZ == CameraChunk(pz)
        center == <<cameraChunkX, cameraChunkZ>>
        moved  == CameraMoved(cameraChunkX, cameraChunkZ, lastCameraChunkPosition)
        newLast == [x |-> Fin(cameraChunkX), z |-> Fin(cameraChunkZ)]
    IN  /\ steps < MaxSteps
        /\ steps' = steps + 1
        /\ camPos' = <<px, pz>>
        /\ IF moved
           THEN /\ fkind # NoFault =>
                     /\ faults < MaxFaults
                     /\ InRadius(fcell, center, viewDistance)
                     /\ fcell \notin DOMAIN activeChunks
                /\ fkind = NoFault => fcell = center
                /\ lastCameraChunkPosition' = newLast
                /\ \E u \in {updateActiveChunks(center, activeChunks, scene, newLast,
                                                 viewDistance, resolution, oceanFloorDepth,
                                                 fcell, fkind)} :
                      /\ activeChunks' = u.chunks
                      /\ scene' = u.scene
                      /\ call' = [op |-> "update", prevPos |-> camPos,
                                  reconciled |-> TRUE, threw |-> u.threw,
                                  center |-> center, created |-> u.created,
                                  released |-> u.released, leaked |-> u.leaked,
                                  fault |-> [cell |-> IF fkind = NoFault THEN << >> ELSE fcell,
                                             kind |-> fkind],
                                  request |-> Infinity, time |-> Fin(time)]
                      /\ allowed' = IF u.threw THEN allowed \cup u.admitted ELSE u.admitted
                /\ faults' = IF fkind # NoFault THEN faults + 1 ELSE faults
           ELSE /\ fkind = NoFault
                /\ fcell = center
                /\ call' = [NoCall("update") EXCEPT !.center = center, !.time = Fin(time)]
                /\ UNCHANGED <<lastCameraChunkPosition, activeChunks, scene, allowed, faults>>
        /\ uniforms' = [uniforms EXCEPT !.uTime = StoredTime(time, moved, uniforms.uTime)]
        /\ UNCHANGED <<resolution, viewDistance, maxSafeViewDistance, oceanFloorDepth, probe,
                       chunkSize, geometries, sample, boat, applied>>

\* clock.getElapsedTime() in the frame that follows steps earlier calls, one second
\* apart
ClockTime == (steps + 1) * Milli

\* the update of one frame of the animation loop
Update(px, pz, fcell, fkind) == UpdateAt(ClockTime, px, pz, fcell, fkind)

\* setViewDistance's limit: a request above the safe maximum becomes the maximum
LimitViewDistance_unclamped(v, maxSafe) == v

LimitViewDistance(v, maxSafe) == IF v > maxSafe THEN maxSafe ELSE v

\* WorldManager.setViewDistance(v)
SetViewDistance(v) ==
    /\ steps < MaxSteps
    /\ steps' = steps + 1
    /\ viewDistance' = LimitViewDistance(v, maxSafeViewDistance)
    /\ lastCameraChunkPosition' = [lastCameraChunkPosition EXCEPT !.x = Infinity]
    /\ call' = [NoCall("setViewDistance") EXCEPT !.request = Fin(v)]
    /\ UNCHANGED <<resolution, maxSafeViewDistance, oceanFloorDepth, activeChunks, scene,
                   camPos, allowed, faults, probe, chunkSize, geometries, oceanVars>>

\* the limits of setOceanFloorDepth left out (the mutant)
LimitOceanFloorDepth_unclamped(depth) == depth

\* setOceanFloorDepth's limits: Math.max(-20, Math.min(0, depth))
LimitOceanFloorDepth(depth) == Max(0 - 20, Min(0, depth))

\* setOceanFloorDepth leaving the terrain meshes where they are (the mutant)
MoveFloors_none(chunks, depth) == chunks

\* setOceanFloorDepth's loop: the terrain mesh of every active chunk that has one moves
\* to y = depth
MoveFloors(chunks, depth) ==
    [c \in DOMAIN chunks |->
        IF chunks[c].terrainMesh # << >>
        THEN [chunks[c] EXCEPT !.terrainMesh = << [@[1] EXCEPT !.y = depth] >>]
        ELSE chunks[c]]

\* WorldManager.setOceanFloorDepth(depth)
SetOceanFloorDepth(depth) ==
    /\ steps < MaxSteps
    /\ steps' = steps + 1
    /\ oceanFloorDepth' = LimitOceanFloorDepth(depth)
    /\ activeChunks' = MoveFloors(activeChunks, LimitOceanFloorDepth(depth))
    /\ call' = [NoCall("setOceanFloorDepth") EXCEPT !.request = Fin(depth)]
    /\ UNCHANGED <<resolution, viewDistance, maxSafeViewDistance, lastCameraChunkPosition,
                   scene, camPos, allowed, faults, probe, chunkSize, geometries,
                   oceanVars>>

\* WorldManager.dispose()
Dispose ==
    LET released == [c \in DOMAIN activeChunks |-> ChunkDispose(activeChunks[c])]
    IN  /\ steps < MaxSteps
        /\ steps' = steps + 1
        /\ activeChunks' = [c \in {} |-> 0]
        /\ scene' = scene \ {<<c, ro, "chunk">> : c \in DOMAIN activeChunks, ro \in Roles}
        /\ call' = [NoCall("dispose") EXCEPT !.released = released,
                                             !.leaked = Undisposed(activeChunks, released)]
        /\ UNCHANGED <<resolution, viewDistance, maxSafeViewDistance, oceanFloorDepth,
                       lastCameraChunkPosition, camPos, allowed, faults, probe,
                       chunkSize, geometries, oceanVars>>

Positions == {<<px, 0>> : px \in (0 - MaxPosX)..MaxPosX} \cup {<<0, ChunkSize>>}

Next ==
    \/ \E p \in Positions :
          Update(p[1], p[2], <<CameraChunk(p[1]), CameraChunk(p[2])>>, NoFault)
    \/ \E p \in Positions, o \in FaultOffsets, fk \in FaultKinds :
          Update(p[1], p[2], <<CameraChunk(p[1]) + o[1], CameraChunk(p[2]) + o[2]>>, fk)
    \/ \E v \in 1..MaxView : SetViewDistance(v)
    \/ Dispose

Spec == Init /\ [][Next]_vars

----------------------------------------------------------------------------
(* Floor-depth runs: the depth control of the UI between the updates *)

Depths == {0 - 25, 0 - 20, 0 - 7, 0, 3}

NextDepth ==
    \/ \E p \in Positions :
          Update(p[1], p[2], <<CameraChunk(p[1]), CameraChunk(p[2])>>, NoFault)
    \/ \E v \in 1..MaxView : SetViewDistance(v)
    \/ \E d \in Depths : SetOceanFloorDepth(d)
    \/ Dispose

SpecDepth == Init /\ [][NextDepth]_vars

----------------------------------------------------------------------------
(* Level-of-detail runs: a wide view distance, the camera on the x axis,   *)
(* no construction failure                                                 *)

InitLod == InitWith(Resolutions, {LodMaxView})

LodPositions == {<<px, 0>> : px \in (0 - LodMaxPos)..LodMaxPos}

NextLod ==
    \/ \E p \in LodPositions :
          Update(p[1], p[2], <<CameraChunk(p[1]), CameraChunk(p[2])>>, NoFault)
    \/ \E v \in {LodMaxView - 1, LodMaxView} : SetViewDistance(v)

SpecLod == InitLod /\ [][NextLod]_vars

----------------------------------------------------------------------------
(* View-distance runs: any base resolution, any request, no update         *)

InitView == InitWith(ViewResolutions, 1..MaxRequest)

NextView == \E v \in (0 - 1)..MaxRequest : SetViewDistance(v)

SpecView == InitView /\ [][NextView]_vars

----------------------------------------------------------------------------
(* Scenario runs: chunkSize 16 and viewDistance 3, the camera moving along  *)
(* the x axis in steps of half a chunk, no construction failure             *)

ScenarioChunkSize == 16

ScenarioViewDistance == 3

InitScenario ==
    /\ InitWorld({ScenarioChunkSize}, Resolutions, {ScenarioViewDistance})
    /\ boat = << >>

ScenarioPositions ==
    {<<h * (ScenarioChunkSize \div 2), 0>> : h \in (0 - 2)..(2 * ScenarioMaxCell + 1)}

NextScenario ==
    \E p \in ScenarioPositions :
        Update(p[1], p[2], <<CameraChunk(p[1]), CameraChunk(p[2])>>, NoFault)

SpecScenario == InitScenario /\ [][NextScenario]_vars

----------------------------------------------------------------------------
(* Single-chunk runs: createChunk for one cell, the camera in cell <<0, 0>> *)

InitProbe == InitWith(ProbeResolutions, {calculateSafeViewDistance(32)})

ProbeCells == {<<x, z>> : x \in 0..ProbeMax, z \in 0..ProbeMax}

\* createChunk(x, z) for a cell within the view distance of a camera in cell <<0, 0>>
ProbeChunk(c) ==
    /\ InRadius(c, <<0, 0>>, viewDistance)
    /\ probe' = <<createChunk(c, [x |-> Fin(0), z |-> Fin(0)], resolution,
                              oceanFloorDepth, NoFault).chunk>>
    /\ UNCHANGED <<resolution, viewDistance, maxSafeViewDistance, oceanFloorDepth,
                   activeChunks, lastCameraChunkPosition, scene, camPos, call, allowed,
                   faults, steps, chunkSize, geometries, oceanVars>>

NextProbe == \E c \in ProbeCells : ProbeChunk(c)

SpecProbe == InitProbe /\ [][NextProbe]_vars

----------------------------------------------------------------------------
(* Chunk runs: one chunk is created, disposed and given a new water mesh *)

\* createChunk(x, z) as a counted call
ChunkCreate(c) ==
    /\ steps < MaxChunkCalls
    /\ steps' = steps + 1
    /\ call' = NoCall("createChunk")
    /\ \E chunk \in {createChunk(c, [x |-> Fin(0), z |-> Fin(0)], resolution,
                                  oceanFloorDepth, NoFault).chunk} :
          /\ probe' = <<chunk>>
          /\ geometries' = <<Geometry("water", chunk.mesh[1]),
                             Geometry("floor", chunk.terrainMesh[1])>>
    /\ UNCHANGED <<resolution, viewDistance, maxSafeViewDistance, oceanFloorDepth,
                   activeChunks, lastCameraChunkPosition, scene, camPos, allowed,
                   faults, chunkSize, oceanVars>>

\* chunk.dispose() on the chunk in probe
ChunkDisposeCall ==
    /\ steps < MaxChunkCalls
    /\ steps' = steps + 1
    /\ probe # << >>
    /\ \E n \in {ChunkDispose(probe[1])} :
          /\ call' = [NoCall("Chunk.dispose") EXCEPT !.released = n]
          /\ geometries' =
                [k \in DOMAIN geometries |->
                    IF geometries[k].held /\ geometries[k].role = "water"
                    THEN [geometries[k] EXCEPT
                            !.disposeCalls = @ + n.water,
                            !.held = MeshAfterDispose(probe[1]) # << >>]
                    ELSE IF geometries[k].held
                    THEN [geometries[k] EXCEPT !.disposeCalls = @ + n.floor]
                    ELSE geometries[k]]
    /\ probe' = <<[probe[1] EXCEPT !.mesh = MeshAfterDispose(probe[1])]>>
    /\ UNCHANGED <<resolution, viewDistance, maxSafeViewDistance, oceanFloorDepth,
                   activeChunks, lastCameraChunkPosition, scene, camPos, allowed,
                   faults, chunkSize, oceanVars>>

\* chunk.createWaterMesh(sharedMaterial) on the chunk in probe: this.mesh is assigned
\* the new mesh, the mesh it held before is let go without a dispose() call
ChunkRebuild(fault) ==
    /\ steps < MaxChunkCalls
    /\ steps' = steps + 1
    /\ probe # << >>
    /\ call' = NoCall("Chunk.createWaterMesh")
    /\ \E w \in {createWaterMesh(resolution, probe[1].distSq, fault)} :
          IF w.threw
          THEN UNCHANGED <<probe, geometries>>
          ELSE /\ probe' = <<[probe[1] EXCEPT !.mesh = <<w.mesh>>]>>
               /\ geometries' =
                     Append([k \in DOMAIN geometries |->
                                IF geometries[k].role = "water"
                                THEN [geometries[k] EXCEPT !.held = FALSE]
                                ELSE geometries[k]],
                            Geometry("water", w.mesh))
    /\ UNCHANGED <<resolution, viewDistance, maxSafeViewDistance, oceanFloorDepth,
                   activeChunks, lastCameraChunkPosition, scene, camPos, allowed,
                   faults, chunkSize, oceanVars>>

InitChunk == InitWith(Resolutions, {calculateSafeViewDistance(256)})

ChunkCells == {<<0, 0>>, <<6, 0>>, <<11, 0>>}

NextChunk ==
    \/ \E c \in ChunkCells : ChunkCreate(c)
    \/ ChunkDisposeCall
    \/ \E fk \in {NoFault} \cup FaultKinds : ChunkRebuild(fk)

SpecChunk == InitChunk /\ [][NextChunk]_vars

----------------------------------------------------------------------------
(* Wave runs: the setters of the water material, its clock, and samples of   *)
(* the wave height                                                           *)

worldVars == <<resolution, viewDistance, maxSafeViewDistance, oceanFloorDepth,
               activeChunks, lastCameraChunkPosition, scene, camPos, call, allowed,
               faults, probe, chunkSize, geometries>>

\* a call on the water material that stores value in one uniform
SetUniform(name, value) ==
    /\ steps < MaxWaveCalls
    /\ steps' = steps + 1
    /\ uniforms' = [uniforms EXCEPT ![name] = value]
    /\ sample' = [op |-> name, value |-> value]
    /\ UNCHANGED <<worldVars, boat, applied>>

\* WaterMaterial.setWavesAmplitude(amplitude)
SetWavesAmplitude(amplitude) == SetUniform("uWavesAmplitude", amplitude)

\* WaterMaterial.setWavesFrequency(frequency)
SetWavesFrequency(frequency) == SetUniform("uWavesFrequency", frequency)

\* WaterMaterial.setWavesPersistence(persistence)
SetWavesPersistence(persistence) == SetUniform("uWavesPersistence", persistence)

\* WaterMaterial.setWavesLacunarity(lacunarity)
SetWavesLacunarity(lacunarity) == SetUniform("uWavesLacunarity", lacunarity)

\* WaterMaterial.setWavesIterations(iterations): a count, not in thousandths
SetWavesIterations(iterations) == SetUniform("uWavesIterations", iterations)

\* WaterMaterial.setWavesSpeed(speed)
SetWavesSpeed(speed) == SetUniform("uWavesSpeed", speed)

\* WaterMaterial.update(time)
MaterialUpdate(time) == SetUniform("uTime", time)

\* WaveUtils.getWaveHeight(x, z)
GetWaveHeight(x, z) ==
    /\ steps < MaxWaveCalls
    /\ steps' = steps + 1
    /\ \E h \in {getWaveHeight(x, z, uniforms)} :
          sample' = [op |-> "getWaveHeight", x |-> x, z |-> z,
                     threw |-> h.threw, octaves |-> h.octaves,
                     layers |-> h.layers, value |-> h.value,
                     cell |-> simplex2D((x * uniforms.uWavesFrequency) \div Milli,
                                        (z * uniforms.uWavesFrequency) \div Milli).cell]
    /\ UNCHANGED <<worldVars, uniforms, boat, applied>>

SamplePoints == {p * (Milli \div 2) : p \in (0 - 2 * MaxSample)..(2 * MaxSample)}

InitWave == InitWith(Resolutions, {1})

NextWave ==
    \/ \E v \in {0, 36} : SetWavesAmplitude(v)
    \/ \E v \in {529, 1000} : SetWavesFrequency(v)
    \/ \E v \in {0 - 300, 0, 300, 1000} : SetWavesPersistence(v)
    \/ \E v \in {0 - 1000, 0, 2180} : SetWavesLacunarity(v)
    \/ \E n \in {0 - 1, 0, 2} : SetWavesIterations(n)
    \/ \E v \in {0, 400} : SetWavesSpeed(v)
    \/ \E t \in {0, 1000, 5000} : MaterialUpdate(t)
    \/ \E x \in SamplePoints, z \in SamplePoints : GetWaveHeight(x, z)

SpecWave == InitWave /\ [][NextWave]_vars

----------------------------------------------------------------------------
(* Time runs: updates at any elapsed time between the other calls of the    *)
(* world manager, the wave setters and the height samples                   *)

Times == {Milli, 5 * Milli}

NextTime ==
    \/ \E t \in Times, p \in Positions :
          UpdateAt(t, p[1], p[2], <<CameraChunk(p[1]), CameraChunk(p[2])>>, NoFault)
    \/ \E t \in Times, o \in FaultOffsets :
          UpdateAt(t, 0, 0, o, [water |-> FALSE, fallback |-> FALSE, floor |-> TRUE])
    \/ \E v \in 1..MaxView : SetViewDistance(v)
    \/ \E d \in {0 - 7} : SetOceanFloorDepth(d)
    \/ Dispose
    \/ \E v \in {1000} : SetWavesFrequency(v)
    \/ \E v \in {0} : SetWavesSpeed(v)
    \/ \E x \in {0, Milli \div 2} : GetWaveHeight(x, 0)

SpecTime == Init /\ [][NextTime]_vars

----------------------------------------------------------------------------
(* Hash runs: hash2D and getGradient for one pair of lattice indices *)

Hash2D(i, j) ==
    /\ sample' = [op |-> "hash2D", i |-> i, j |-> j, hash |-> hash2D(i, j),
                  gradient |-> getGradient(hash2D(i, j))]
    /\ UNCHANGED <<worldVars, steps, uniforms, boat, applied>>

NextHash == \E i \in (0 - HashMax)..HashMax, j \in (0 - HashMax)..HashMax : Hash2D(i, j)

SpecHash == InitWave /\ [][NextHash]_vars

----------------------------------------------------------------------------
(* Boat runs: the controls of the boat and the steps of the physics world *)

\* Boat.setRudderAngle(angleDegrees): rudderAngle is stored in radians (millionths);
\* call keeps the angle that was asked for
SetRudderAngle(angleDegrees) ==
    /\ boat # << >>
    /\ boat' = [boat EXCEPT !.rudderAngle = toRadians(clampedAngle(angleDegrees))]
    /\ call' = [NoCall("setRudderAngle") EXCEPT !.request = Fin(angleDegrees)]
    /\ UNCHANGED <<resolution, viewDistance, maxSafeViewDistance, oceanFloorDepth,
                   activeChunks, lastCameraChunkPosition, scene, camPos, allowed,
                   faults, probe, chunkSize, geometries>>
    /\ UNCHANGED <<steps, uniforms, sample, applied>>

\* the thrust control: boat.currentThrust = thrust
SetCurrentThrust(thrust) ==
    /\ boat # << >>
    /\ boat' = [boat EXCEPT !.currentThrust = thrust]
    /\ UNCHANGED <<worldVars, steps, uniforms, sample, applied>>

\* the preStep listener of the physics world, the solver having brought the body to
\* the state body; waterHeight is the elevation getWaveHeight returns when it returns:
\* 0 when no octave is summed or the amplitude is 0
PreStep(body, waterHeight) ==
    /\ boat # << >>
    /\ \E h \in {getWaveHeight(body.x, body.z, uniforms)} :
          /\ (h.octaves = 0 \/ uniforms.uWavesAmplitude = 0) => waterHeight = 0
          /\ h.threw => waterHeight = 0
          /\ applied' =
                IF h.threw
                THEN [threw |-> TRUE, body |-> body, controls |-> boat,
                      bottomY |-> body.y - boat.hullHeight \div 2,
                      waterHeight |-> << >>, forces |-> << >>]
                ELSE [threw |-> FALSE, body |-> body, controls |-> boat,
                      bottomY |-> body.y - boat.hullHeight \div 2,
                      waterHeight |-> <<waterHeight>>,
                      forces |-> preStepForces(boat, body, waterHeight)]
    /\ UNCHANGED <<worldVars, steps, uniforms, sample, boat>>

\* the states the solver brings the body to
BodyStates ==
    [x : {0 - Milli, 0}, z : {0}, y : {0 - Milli, 0, 500, 550, 8000},
     vx : {0}, vz : {0, 2000}, qx : {0, 100}, qz : {0}]

WaterHeights == {0 - 50, 0, 50}

InitBoat ==
    /\ InitWorld({ChunkSize}, Resolutions, {1})
    /\ boat = DefaultBoat

NextBoat ==
    \/ \E a \in {0 - 60, 0, 10, 60} : SetRudderAngle(a)
    \/ \E t \in {0, 500} : SetCurrentThrust(t)
    \/ \E body \in BodyStates, w \in WaterHeights : PreStep(body, w)

SpecBoat == InitBoat /\ [][NextBoat]_vars

----------------------------------------------------------------------------
(* Claims *)

Keys == DOMAIN activeChunks

\* the cells within the circle of radius r around center, written out
Circle(center, r) ==
    LET All == {<<x, z>> : x \in (center[1] - r)..(center[1] + r),
                           z \in (center[2] - r)..(center[2] + r)}
    IN  {c \in All : (c[1] - center[1]) * (c[1] - center[1])
                       + (c[2] - center[2]) * (c[2] - center[2]) <= r * r}

Abs(n) == IF n < 0 THEN 0 - n ELSE n

\* the cell of the camera position of the last update
LastCell == <<CameraChunk(camPos[1]), CameraChunk(camPos[2])>>

Returned == call.op = "update" /\ ~call.threw

\* C1: right after an update that ran a reconcile for cell (cx, cz) and returned, the
\* registry's key set is exactly the cells with (x-cx)^2 + (z-cz)^2 <= viewDistance^2,
\* whatever it held before.
C1_RegistryIsCircle ==
    (Returned /\ call.reconciled) => Keys = Circle(call.center, viewDistance)

\* C1 witness: a completed reconcile that both created and evicted chunks, with a
\* radius at which the circle is smaller than the enclosing square.
C1_Witness ==
    /\ Returned /\ call.reconciled
    /\ call.created # {} /\ DOMAIN call.released # {}
    /\ viewDistance = 2
    /\ Cardinality(Keys) = 13

\* C2 (as stated): in every state reached without a construction failure, no registry
\* entry lies outside the circle of the current viewDistance around the last
\* reconciled viewpoint cell.
C2_Original ==
    (faults = 0 /\ camPos # << >>) =>
        \A c \in Keys : DistSq(c, LastCell) <= viewDistance * viewDistance

\* C2 (amended): in every reachable state every registry entry is for a cell admitted
\* (within the circle of the viewDistance then in force) by a reconcile run since the
\* last reconcile that completed its eviction pass, that one included; right after a
\* completed reconcile no entry lies outside the current admission radius.
C2_WithinAdmitted ==
    /\ Keys \subseteq allowed
    /\ (Returned /\ call.reconciled) =>
           \A c \in Keys : DistSq(c, call.center) <= viewDistance * viewDistance

\* C2 witness: after setViewDistance lowered the radius, entries outside the new radius
\* are still resident.
C2_Witness ==
    /\ call.op = "setViewDistance"
    /\ camPos # << >>
    /\ \E c \in Keys : DistSq(c, LastCell) > viewDistance * viewDistance
    /\ Keys \subseteq allowed

\* C3: an update whose viewpoint cell equals that of the previous update, with no other
\* call in between, creates, rebuilds and evicts no chunk and leaves the registry, every
\* chunk and the scene unchanged.
C3_SameCellNoop ==
    [][(call.op = "update" /\ call'.op = "update"
          /\ CameraChunk(camPos'[1]) = CameraChunk(camPos[1])
          /\ CameraChunk(camPos'[2]) = CameraChunk(camPos[2]))
       => (/\ activeChunks' = activeChunks
           /\ scene' = scene
           /\ call'.created = {}
           /\ DOMAIN call'.released = {}
           /\ ~call'.threw)]_vars

\* C3 witness: an update that followed an update in the same cell, with chunks resident.
C3_Witness ==
    /\ call.op = "update" /\ ~call.reconciled
    /\ call.prevPos # << >>
    /\ Keys # {}

\* C4 (as stated): an update at a position less than chunkSize away, in x and in z, from
\* the position of the previous update changes nothing in the registry.
C4_Original ==
    [][(call.op = "update" /\ call'.op = "update" /\ ~call'.threw
          /\ call'.fault.kind = NoFault
          /\ Abs(camPos'[1] - camPos[1]) < ChunkSize
          /\ Abs(camPos'[2] - camPos[2]) < ChunkSize)
       => (DOMAIN activeChunks' = DOMAIN activeChunks /\ call'.created = {})]_vars

\* C4 (amended): an update at a position less than chunkSize away, in x and in z, from
\* the position of the previous update AND in the same grid cell changes nothing in the
\* registry; a move of less than chunkSize that crosses a cell boundary reconciles.
C4_SubCellMoveSameCell ==
    [][(call.op = "update" /\ call'.op = "update"
          /\ Abs(camPos'[1] - camPos[1]) < ChunkSize
          /\ Abs(camPos'[2] - camPos[2]) < ChunkSize
          /\ camPos'[1] \div ChunkSize = camPos[1] \div ChunkSize
          /\ camPos'[2] \div ChunkSize = camPos[2] \div ChunkSize)
       => (/\ DOMAIN activeChunks' = DOMAIN activeChunks
           /\ call'.created = {}
           /\ DOMAIN call'.released = {}
           /\ ~call'.reconciled)]_vars

\* C4 witness: the camera moved by less than chunkSize to another position of the same
\* cell, and the update did not reconcile.
C4_Witness ==
    /\ call.op = "update" /\ ~call.reconciled
    /\ call.prevPos # << >> /\ call.prevPos # camPos
    /\ Abs(camPos[1] - call.prevPos[1]) < ChunkSize
    /\ Keys # {}

\* C5: within one reconcile no cell is both created and evicted: the eviction pass
\* removes only cells that were resident before the call and lie outside the circle the
\* creation pass admitted, never a chunk created in that call.
C5_NoCreateAndEvict ==
    [][call'.op = "update"
       => (/\ call'.created \cap DOMAIN call'.released = {}
           /\ DOMAIN call'.released \subseteq DOMAIN activeChunks
           /\ call'.created \cap DOMAIN activeChunks = {}
           /\ \A c \in DOMAIN call'.released :
                  c \notin Circle(call'.center, viewDistance)
           /\ \A c \in call'.created : c \in Circle(call'.center, viewDistance))]_vars

\* C5 witness: a reconcile that created some chunks and evicted others.
C5_Witness ==
    /\ call.op = "update" /\ call.reconciled
    /\ call.created # {}
    /\ DOMAIN call.released # {}

\* C6: whenever a chunk leaves the registry (evicted by a reconcile, or removed by
\* WorldManager.dispose) each geometry it built, water and floor, receives exactly one
\* dispose() call, and the call leaves no undisposed geometry without a registry entry
\* (stated for runs in which no construction fails).
C6_ReleasedExactlyOnce ==
    faults = 0 =>
        /\ \A c \in DOMAIN call.released :
               call.released[c].water = 1 /\ call.released[c].floor = 1
        /\ call.leaked = {}

\* C7: when the only construction that fails in a reconcile is the water geometry of an
\* admitted cell at its LOD resolution, update returns normally and that cell is
\* resident, created in this call, with a water mesh built at the fallback resolution 8.
C7_FallbackKeepsCellResident ==
    (call.op = "update" /\ call.fault.kind.water
       /\ ~call.fault.kind.fallback /\ ~call.fault.kind.floor)
    => (/\ ~call.threw
        /\ call.fault.cell \in Keys
        /\ call.fault.cell \in call.created
        /\ activeChunks[call.fault.cell].mesh # << >>
        /\ activeChunks[call.fault.cell].mesh[1].segments = 8
        /\ activeChunks[call.fault.cell].mesh[1].lodLevel.tag = "fallback"
        /\ <<call.fault.cell, "water", "chunk">> \in scene
        /\ Keys = Circle(call.center, viewDistance))

\* C7 witness: a reconcile in which one water build failed at a LOD resolution other
\* than 8, and the cell is resident with the fallback mesh.
C7_Witness ==
    /\ call.op = "update" /\ call.fault.kind.water /\ ~call.threw
    /\ call.fault.cell \in Keys
    /\ activeChunks[call.fault.cell].mesh[1].segments = 8
    /\ \E c \in Keys : activeChunks[c].mesh[1].segments = 256

\* C8: a construction failure for one cell (water, fallback or floor build) never blocks
\* the reconcile: update returns normally, every other cell of the admission set is
\* resident afterwards and no cell outside it is.
C8_FailureNeverBlocks ==
    (call.op = "update" /\ call.reconciled /\ call.fault.kind # NoFault)
    => (/\ ~call.threw
        /\ Circle(call.center, viewDistance) \ {call.fault.cell} \subseteq Keys
        /\ Keys \subseteq Circle(call.center, viewDistance))

\* C9: a chunk resident before and after a call is never rebuilt: it is not created
\* anew by the call, and its stored distance, detail level and water resolution stay
\* those of its creation.
C9_ResidentNeverRebuilt ==
    [][\A c \in DOMAIN activeChunks \cap DOMAIN activeChunks' :
          /\ c \notin call'.created
          /\ c \notin DOMAIN call'.released
          /\ activeChunks'[c].distSq = activeChunks[c].distSq
          /\ activeChunks'[c].mesh = activeChunks[c].mesh]_vars

\* the band of a squared distance, written out: d <= 5, <= 10, <= 15, beyond
Band(distSq) ==
    IF distSq <= 5 * 5 THEN 0
    ELSE IF distSq <= 10 * 10 THEN 1
    ELSE IF distSq <= 15 * 15 THEN 2
    ELSE 3

\* C9 witness: after a reconcile, a resident chunk that was not created by it now lies
\* in another distance band than the one its detail level was computed from.
C9_Witness ==
    /\ call.op = "update" /\ call.reconciled
    /\ \E c \in Keys \ call.created :
          /\ c \in Circle(call.center, viewDistance)
          /\ activeChunks[c].mesh[1].lodLevel.tag = "lod"
          /\ activeChunks[c].mesh[1].lodLevel.value = 0
          /\ Band(DistSq(c, call.center)) = 1

Halved(res, k) == IF k = 0 THEN res
                  ELSE IF k = 1 THEN res \div 2
                  ELSE IF k = 2 THEN res \div 4
                  ELSE res \div 8

\* C10: a newly created chunk, at Euclidean cell distance d from the viewpoint cell, has
\* detail level 0 for d <= 5, 1 for 5 < d <= 10, 2 for 10 < d <= 15 and 3 beyond; its
\* water resolution is max(16, floor(resolution / 2^level)); the level is in 0..3.
C10_LevelByDistanceBand ==
    probe # << >> =>
        LET ch  == probe[1]
            dSq == ch.position[1] * ch.position[1] + ch.position[2] * ch.position[2]
            lvl == ch.mesh[1].lodLevel.value
        IN  /\ ch.mesh[1].lodLevel.tag = "lod"
            /\ lvl \in 0..3
            /\ ch.distSq = dSq
            /\ (dSq <= 25) => lvl = 0
            /\ (25 < dSq /\ dSq <= 100) => lvl = 1
            /\ (100 < dSq /\ dSq <= 225) => lvl = 2
            /\ (225 < dSq) => lvl = 3
            /\ ch.mesh[1].segments >= 16
            /\ ch.mesh[1].segments >= Halved(resolution, lvl)
            /\ ch.mesh[1].segments \in {16, Halved(resolution, lvl)}
            \* non-decreasing in d: no nearer cell gets a coarser level
            /\ \A n \in 0..dSq : calculateLODLevel(n) <= lvl

\* C10 witness: a chunk beyond distance 15 is built at level 3, with floor(64 / 8) = 8
\* raised to the floor of 16.
C10_Witness ==
    /\ probe # << >>
    /\ probe[1].distSq > 225
    /\ probe[1].mesh[1].lodLevel.value = 3
    /\ probe[1].mesh[1].segments = 16
    /\ resolution = 64

\* C11: after construction and after any setViewDistance calls, viewDistance is at most
\* maxSafeViewDistance, which is 8, 12, 16 or 20 for a base resolution above 256, above
\* 128, above 64 or otherwise; a request above the maximum leaves viewDistance at exactly
\* the maximum and a request at or below it leaves viewDistance at the request.
C11_ViewDistanceClamped ==
    /\ viewDistance <= maxSafeViewDistance
    /\ maxSafeViewDistance = (IF resolution > 256 THEN 8
                              ELSE IF resolution > 128 THEN 12
                              ELSE IF resolution > 64 THEN 16 ELSE 20)
    /\ call.op = "setViewDistance" =>
          /\ call.request[1] > maxSafeViewDistance => viewDistance = maxSafeViewDistance
          /\ call.request[1] <= maxSafeViewDistance => viewDistance = call.request[1]

\* C11 witness: at base resolution 257 (maximum 8) a request of 9 was clamped to 8
C11_Witness ==
    /\ call.op = "setViewDistance"
    /\ resolution = 257
    /\ call.request = Fin(9)
    /\ viewDistance = 8

\* C12: hash2D(i, j) is an integer in [0, 16) for all integers i and j, negative ones
\* included, so getGradient always finds a defined entry of its 16-entry table.
C12_HashInRange ==
    sample.op = "hash2D" =>
        /\ sample.hash >= 0 /\ sample.hash < 16
        /\ ~sample.gradient.threw

\* C13: getWaveHeight(x, z) returns a number and never throws, for every sample point,
\* stored time and parameter set, also where the lattice indices are negative.
C13_WaveHeightTotal ==
    sample.op = "getWaveHeight" => ~sample.threw

\* C20: after any wave-parameter setter calls the uniforms hold an octave count of at
\* least 1 and a persistence and a lacunarity above 0.
C20_ParametersValid ==
    /\ uniforms.uWavesIterations >= 1
    /\ uniforms.uWavesPersistence > 0
    /\ uniforms.uWavesLacunarity > 0

\* C14: in a step where the hull bottom is above the water the listener applies no
\* buoyancy force, no damping force and no stabilizing torque.
C14_AirborneNoForce ==
    (applied # << >> /\ ~applied.threw /\ applied.bottomY > applied.waterHeight[1]) =>
        \A k \in DOMAIN applied.forces :
            applied.forces[k].kind \notin {"buoyancy", "damping", "torque"}

\* C14 witness: a step with the hull bottom 7.5 above a water height of 0
C14_Witness ==
    /\ applied # << >> /\ ~applied.threw
    /\ applied.body.y = 8000
    /\ applied.waterHeight = <<0>>
    /\ applied.forces = << >>

C16_Original ==
    (applied # << >> /\ ~applied.threw) =>
        /\ applied.controls.rudderAngle # 0 =>
              \E k \in DOMAIN applied.forces : applied.forces[k].kind = "rudder"
        /\ applied.controls.currentThrust > 0 =>
              \E k \in DOMAIN applied.forces : applied.forces[k].kind = "thrust"

\* C16 as amended: the rudder force is applied exactly in the steps where
\* bottomY <= waterHeight and the thrust force exactly in those of them where the
\* thrust is positive; in a step where bottomY > waterHeight neither is applied.
C16_ControlsOnlyInWater ==
    (applied # << >> /\ ~applied.threw) =>
        LET inWater == applied.bottomY <= applied.waterHeight[1]
            Has(kind) == \E k \in DOMAIN applied.forces : applied.forces[k].kind = kind
        IN  /\ Has("rudder") <=> inWater
            /\ Has("thrust") <=> (inWater /\ applied.controls.currentThrust > 0)
            /\ \A k \in DOMAIN applied.forces :
                  applied.forces[k].kind = "rudder" =>
                      applied.forces[k].angle = applied.controls.rudderAngle
            /\ \A k \in DOMAIN applied.forces :
                  applied.forces[k].kind = "thrust" =>
                      applied.forces[k].magnitude = applied.controls.currentThrust

\* C16 witness: rudder at 10 degrees and thrust 500 set, one step in the air applying
\* nothing
C16_Witness ==
    /\ applied # << >> /\ ~applied.threw
    /\ applied.controls.rudderAngle = 174532 /\ applied.controls.currentThrust = 500
    /\ applied.bottomY > applied.waterHeight[1]
    /\ applied.forces = << >>

\* C17: with viewDistance 3 and chunkSize 16 the first reconcile at cell (0,0) leaves
\* exactly 29 resident tiles; a following reconcile at cell (1,0) creates exactly the
\* cells within radius 3 of (1,0) not within radius 3 of (0,0), evicts exactly those
\* within radius 3 of (0,0) not within radius 3 of (1,0), and neither disposes nor
\* recreates a tile that lies in both.
C17_ScenarioMove ==
    [][(viewDistance = 3 /\ chunkSize = 16 /\ call'.op = "update" /\ call'.reconciled) =>
          /\ (steps = 0 /\ call'.center = <<0, 0>>) =>
                /\ Cardinality(DOMAIN activeChunks') = 29
                /\ DOMAIN activeChunks' = Circle(<<0, 0>>, 3)
          /\ (Keys = Circle(<<0, 0>>, 3) /\ call'.center = <<1, 0>>) =>
                /\ call'.created = Circle(<<1, 0>>, 3) \ Circle(<<0, 0>>, 3)
                /\ DOMAIN call'.released = Circle(<<0, 0>>, 3) \ Circle(<<1, 0>>, 3)
                /\ \A c \in Circle(<<0, 0>>, 3) \cap Circle(<<1, 0>>, 3) :
                      /\ c \notin call'.created
                      /\ c \notin DOMAIN call'.released
                      /\ c \in DOMAIN activeChunks'
                      /\ activeChunks'[c] = activeChunks[c]]_vars

\* C17 witness: the second call of a run moved the camera from cell (0,0) to (1,0),
\* creating 7 tiles and evicting 7 of the 29
C17_Witness ==
    /\ viewDistance = 3 /\ chunkSize = 16
    /\ steps = 2
    /\ call.op = "update" /\ call.reconciled /\ call.center = <<1, 0>>
    /\ call.prevPos = <<0, 0>>
    /\ Cardinality(call.created) = 7
    /\ Cardinality(DOMAIN call.released) = 7
    /\ Cardinality(Keys) = 29

\* C18: Chunk.dispose on an already released tile changes nothing and releases no
\* geometry a second time; after dispose a new createWaterMesh call yields a new water
\* geometry, which a later dispose releases.
C18_DisposeIdempotentRebuildable ==
    [][/\ \A k \in DOMAIN geometries' : geometries'[k].disposeCalls <= 1
       /\ (call'.op = "Chunk.dispose" /\ probe[1].mesh = << >>) =>
             (probe' = probe /\ geometries' = geometries)
       /\ (call'.op = "Chunk.createWaterMesh" /\ probe[1].mesh = << >>
             /\ probe'[1].mesh # << >>) =>
             /\ Len(geometries') = Len(geometries) + 1
             /\ geometries'[Len(geometries')].role = "water"
             /\ geometries'[Len(geometries')].disposeCalls = 0
             /\ geometries'[Len(geometries')].held
       /\ (call'.op = "Chunk.dispose" /\ probe[1].mesh # << >>) =>
             /\ probe'[1].mesh = << >>
             /\ \A k \in DOMAIN geometries :
                   (geometries[k].held /\ geometries[k].role = "water") =>
                       (geometries'[k].disposeCalls = 1 /\ ~geometries'[k].held)]_vars

\* C18 witness: a tile was released, given a new water mesh and released again, both
\* water geometries disposed once, and a further dispose released nothing
C18_Witness ==
    /\ call.op = "Chunk.dispose"
    /\ call.released.water = 0
    /\ probe # << >> /\ probe[1].mesh = << >>
    /\ Len(geometries) = 3
    /\ geometries[1].role = "water" /\ geometries[1].disposeCalls = 1
    /\ geometries[3].role = "water" /\ geometries[3].disposeCalls = 1

\* C19 as stated: after every reconcile each resident tile's stored distance is its
\* cell distance to the viewpoint cell of that reconcile.
C19_Original ==
    Returned =>
        \A c \in Keys :
            activeChunks[c].distSq =
                (c[1] - call.center[1]) * (c[1] - call.center[1])
                  + (c[2] - call.center[2]) * (c[2] - call.center[2])

\* C19 as amended: a tile's stored distance is its cell distance to the viewpoint cell
\* of the reconcile that created it, and no later call changes it.
C19_DistanceAtCreation ==
    [][/\ (call'.op = "update" /\ call'.reconciled) =>
             \A c \in call'.created \cap DOMAIN activeChunks' :
                 activeChunks'[c].distSq =
                     (c[1] - call'.center[1]) * (c[1] - call'.center[1])
                       + (c[2] - call'.center[2]) * (c[2] - call'.center[2])
       /\ \A c \in (DOMAIN activeChunks \cap DOMAIN activeChunks') \ call'.created :
             activeChunks'[c].distSq = activeChunks[c].distSq]_vars

\* C19 witness: after a reconcile a tile kept from an earlier one stores a distance
\* that is not its distance to the viewpoint cell
C19_Witness ==
    /\ Returned /\ call.reconciled
    /\ \E c \in Keys \ call.created :
          activeChunks[c].distSq # (c[1] - call.center[1]) * (c[1] - call.center[1])
                                     + (c[2] - call.center[2]) * (c[2] - call.center[2])

ValidUniforms(u) ==
    /\ u.uWavesIterations >= 1
    /\ u.uWavesPersistence > 0
    /\ u.uWavesLacunarity > 0
    /\ u.uWavesAmplitude >= 0

\* the sum of persistence^i for i in [0, n), in thousandths, a being persistence^0
RECURSIVE PersistenceSum(_, _, _)
PersistenceSum(persistence, n, a) ==
    IF n <= 0 THEN 0
    ELSE a + PersistenceSum(persistence, n - 1, (a * persistence) \div Milli)

\* C24: under valid uniforms every height that getWaveHeight returns satisfies
\* |height| <= amplitude * (sum of persistence^i over the octaves), and the noise value
\* of every octave lies in [-1, 1].
C24_HeightBounded ==
    (sample.op = "getWaveHeight" /\ ~sample.threw /\ ValidUniforms(uniforms)) =>
        /\ \A k \in DOMAIN sample.layers : Abs(sample.layers[k].noise) <= Milli
        /\ Abs(sample.value) <= uniforms.uWavesAmplitude
                                  * PersistenceSum(uniforms.uWavesPersistence,
                                                   uniforms.uWavesIterations, Milli)

\* C24 witness: a height other than 0 returned under valid uniforms with an octave
\* whose noise value is beyond 0.5 in magnitude
C24_Witness ==
    /\ sample.op = "getWaveHeight" /\ ~sample.threw /\ ValidUniforms(uniforms)
    /\ sample.value # 0
    /\ \E k \in DOMAIN sample.layers : Abs(sample.layers[k].noise) > 500

\* f_i in thousandths: f_0 is the base frequency and f_(i+1) = f_i * lacunarity
RECURSIVE LayerFrequency(_, _)
LayerFrequency(u, i) ==
    IF i = 0 THEN u.uWavesFrequency
    ELSE (LayerFrequency(u, i - 1) * u.uWavesLacunarity) \div Milli

\* a_i in thousandths: a_0 = 1 and a_(i+1) = a_i * persistence
RECURSIVE LayerWeight(_, _)
LayerWeight(u, i) ==
    IF i = 0 THEN Milli
    ELSE (LayerWeight(u, i - 1) * u.uWavesPersistence) \div Milli

\* the sum of weight * noise over the first k layers, in thousandths
RECURSIVE LayerSum(_, _)
LayerSum(layers, k) ==
    IF k = 0 THEN 0
    ELSE LayerSum(layers, k - 1) + (layers[k].weight * layers[k].noise) \div Milli

\* C26: a call of getWaveHeight that returns has accumulated exactly octaveCount layers
\* (none for a count of 0 or less, the result then being 0); layer i samples the noise at
\* (x * f_i + t * speed, z * f_i + t * speed) and weights it by a_i, and the result is
\* the sum of the weighted layers times the amplitude.
C26_LayerStructure ==
    sample.op = "getWaveHeight" =>
        /\ \A k \in DOMAIN sample.layers :
              \E drift \in {(uniforms.uTime * uniforms.uWavesSpeed) \div Milli} :
                 /\ sample.layers[k].x
                       = (sample.x * LayerFrequency(uniforms, k - 1)) \div Milli + drift
                 /\ sample.layers[k].z
                       = (sample.z * LayerFrequency(uniforms, k - 1)) \div Milli + drift
                 /\ sample.layers[k].weight = LayerWeight(uniforms, k - 1)
                 /\ sample.layers[k].noise
                       = simplex2D(sample.layers[k].x, sample.layers[k].z).value
        /\ ~sample.threw =>
              /\ Len(sample.layers) = Max(0, uniforms.uWavesIterations)
              /\ sample.value
                    = uniforms.uWavesAmplitude * LayerSum(sample.layers, Len(sample.layers))
              /\ uniforms.uWavesIterations <= 0 => sample.value = 0

\* C26 witness: a call at x = 0.5 that summed two layers, the second one at 2.18 times
\* the frequency of the first and weighted 0.3
C26_Witness ==
    /\ sample.op = "getWaveHeight" /\ ~sample.threw
    /\ sample.x = 500
    /\ uniforms.uWavesIterations = 2
    /\ Len(sample.layers) = 2
    /\ sample.layers[1].x = 264 /\ sample.layers[2].x = 576
    /\ sample.layers[2].weight = 300

\* C22: after setRudderAngle(a) the stored rudder angle is a limited to [-45, 45]
\* degrees, in radians (to within one millionth), and in every state the stored angle
\* is within 45 degrees of 0.
C22_RudderClamped ==
    boat # << >> =>
        /\ Abs(boat.rudderAngle) * 180 <= 45 * PiMicro
        /\ call.op = "setRudderAngle" =>
              \E a \in {call.request[1]} :
                 \E d \in {IF a < 0 - 45 THEN 0 - 45 ELSE IF a > 45 THEN 45 ELSE a} :
                    Abs(boat.rudderAngle * 180 - d * PiMicro) < 180

\* C22 witness: setRudderAngle(60) has stored 45 degrees, 0.785398 radians
C22_Witness ==
    /\ boat # << >>
    /\ call.op = "setRudderAngle" /\ call.request = Fin(60)
    /\ boat.rudderAngle = 785398

\* C23: after setOceanFloorDepth(d) the depth is d limited to [-20, 0], and in every
\* state the depth is within [-20, 0].
C23_DepthClamped ==
    /\ oceanFloorDepth >= 0 - 20 /\ oceanFloorDepth <= 0
    /\ call.op = "setOceanFloorDepth" =>
          \E d \in {call.request[1]} :
             oceanFloorDepth = (IF d < 0 - 20 THEN 0 - 20 ELSE IF d > 0 THEN 0 ELSE d)

\* C23 witness: setOceanFloorDepth(-25) has stored -20 with chunks resident
C23_Witness ==
    /\ call.op = "setOceanFloorDepth" /\ call.request = Fin(0 - 25)
    /\ oceanFloorDepth = 0 - 20
    /\ Keys # {}

\* C30: after every step of any interleaving of setOceanFloorDepth, updates,
\* setViewDistance and dispose, every registered chunk has a terrain mesh and it is at
\* y = oceanFloorDepth; a setOceanFloorDepth step leaves the set of registered cells
\* as it was.
C30_FloorsAtDepth ==
    [][/\ \A c \in DOMAIN activeChunks' :
             /\ activeChunks'[c].terrainMesh # << >>
             /\ activeChunks'[c].terrainMesh[1].y = oceanFloorDepth'
       /\ call'.op = "setOceanFloorDepth" => DOMAIN activeChunks' = DOMAIN activeChunks]_vars

\* C30 witness: at depth -7 a reconcile has created chunks next to chunks that were
\* built at another depth and moved by setOceanFloorDepth, all floors being at -7
C30_Witness ==
    /\ call.op = "update" /\ call.reconciled /\ ~call.threw
    /\ oceanFloorDepth = 0 - 7
    /\ call.created # {} /\ Keys \ call.created # {}
    /\ \A c \in Keys : activeChunks[c].terrainMesh[1].y = 0 - 7

\* C25: every update step stores its time in uTime, also when it returns at once
\* because the camera cell is unchanged or when its reconcile throws, and every other
\* step (setViewDistance, setOceanFloorDepth, dispose, a wave setter, getWaveHeight)
\* leaves uTime as it was. An update step is one that ends with call.op = "update" and
\* leaves sample alone; a repeated sample or setter after an update fits both cases.
C25_UpdateStoresTime ==
    [][IF call'.op = "update" /\ sample' = sample
       THEN uniforms'.uTime = call'.time[1]
       ELSE uniforms'.uTime = uniforms.uTime]_vars

\* C25 witness: an update that returned at once has stored the time 5, after a height
\* sample taken at the stored time 1 (its first layer drifted by 1 * 0.4)
C25_Witness ==
    /\ call.op = "update" /\ ~call.reconciled /\ call.time = Fin(5 * Milli)
    /\ uniforms.uTime = 5 * Milli
    /\ sample.op = "getWaveHeight" /\ Len(sample.layers) > 0
    /\ sample.layers[1].x = (sample.x * uniforms.uWavesFrequency) \div Milli + 400

\* C27: in every state each registered chunk has its water mesh and its terrain mesh
\* built and in the scene, and every mesh in the scene belongs to a registered chunk.
C27_RegistryFullyBuilt ==
    /\ \A c \in Keys :
          /\ activeChunks[c].mesh # << >>
          /\ activeChunks[c].terrainMesh # << >>
          /\ \A ro \in Roles : <<c, ro, "chunk">> \in scene
    /\ \A e \in scene : e[1] \in Keys /\ e[3] = "chunk"

\* C28: the update that follows setViewDistance reconciles, whatever cell the camera
\* is in, and leaves the registry equal to the admission set of the new viewDistance
\* around the camera cell.
C28_ViewDistanceReconciles ==
    [][(call.op = "setViewDistance" /\ call'.op = "update") =>
          /\ call'.reconciled
          /\ DOMAIN activeChunks' = Circle(call'.center, viewDistance')]_vars

\* C29: the update that follows an aborted reconcile with the camera still in the same
\* cell runs the reconcile again and leaves the registry equal to the admission set
\* of that cell.
C29_AbortedReconcileRetried ==
    [][(call.op = "update" /\ call.threw /\ call'.op = "update"
          /\ call'.center = call.center) =>
          /\ call'.reconciled
          /\ DOMAIN activeChunks' = Circle(call'.center, viewDistance')]_vars

====
